---- MODULE Spec2Model ----
(***************************************************************************)
(* A state-machine model of the PR Comment Resolver: the run driver        *)
(* (main), the per-comment pipeline (processComment), the code context     *)
(* extractor (getCodeContext, getOriginalCode), the Azure OpenAI           *)
(* suggestion generator (generateSuggestion) and the two platform          *)
(* adapters (GitHubService, GitLabService).                                *)
(*                                                                         *)
(* Spec and SpecIface run main as it is wired, with GitHubService;         *)
(* SpecLive is Spec with every adapter call settling.  The extractor's     *)
(* functions and the adapters' operations are also examined one call at a  *)
(* time (SpecExtractor, SpecPost, SpecAdapters), and main's start from a   *)
(* given environment (SpecMain): the variable probe then holds the         *)
(* arguments of the call and, once the call has returned, its result.      *)
(*                                                                         *)
(* Text is modelled structurally.  A file's content is the sequence of     *)
(* its lines (what split("\n") yields; the empty string is <<"">>).  A     *)
(* markdown text is a sequence of tokens, the tokens being the pieces      *)
(* the code's regular expressions and substring tests tell apart.          *)
(*                                                                         *)
(* Every adapter call is a suspension point: the action that issues a call *)
(* puts it into `calls`, and a later action takes it out again together    *)
(* with the platform's answer and runs the handler up to its next await.   *)
(***************************************************************************)
EXTENDS Integers, Sequences, FiniteSets, TLC

VARIABLES
    pc,         \* where main is: "start", "details", "comments", "loop", "await", "done", "exit"
    exitCode,   \* -1 while running, 0 after a normal end, 1 after process.exit(1)
    cause,      \* why the run ended ("" while running)
    calls,      \* the adapter calls in flight
    prDetails,  \* the PullRequestDetails main holds ("" before they are fetched)
    comments,   \* the Comment[] main holds
    idx,        \* the loop position of main's for..of (1-based)
    cpc,        \* per comment: where its processComment is
    outcome,    \* per comment: "Pending", "Skipped", "Failed", "Posted"
    steps,      \* per comment: the adapter calls made for it and how each ended
    probe       \* a single call of one function, examined on its own: arguments and result

vars == <<pc, exitCode, cause, calls, prDetails, comments, idx, cpc, outcome, steps, probe>>

----------------------------------------------------------------------------
(* Bounds of the model *)

MaxComments == 2    \* most comments a listing returns
MaxLine == 2        \* largest line number a comment carries
MaxFileLines == 2   \* most lines a fetched file has
MaxProbeLines == 5  \* most lines of a file text given to the extractor on its own
MaxWindow == 2      \* largest small window size given to the extractor on its own

(* Program constants *)

MAX_CONTEXT_LINES == 20

----------------------------------------------------------------------------
(* Text *)

FENCE == "<fence>"          \* three backquotes
TAG == "suggestion"
NL == "\n"
RAT == "Rationale: "
SP == " "

Min(S) == CHOOSE x \in S : \A y \in S : x <= y

\* Array.prototype.slice(from, to) on a 0-indexed array held as a 1-indexed
\* sequence: a negative index counts from the end, and both are clamped
Slice(lines, from, to) ==
    LET len == Len(lines)
        k == IF from < 0 THEN (IF len + from > 0 THEN len + from ELSE 0)
             ELSE (IF from < len THEN from ELSE len)
        final == IF to < 0 THEN (IF len + to > 0 THEN len + to ELSE 0)
                 ELSE (IF to < len THEN to ELSE len)
    IN IF final <= k THEN <<>> ELSE SubSeq(lines, k + 1, final)

\* Array.prototype.join("\n"), the result held as its own lines: [] joins to ""
Join(lines) == IF lines = <<>> THEN <<"">> ELSE lines

\* a string is falsy exactly when it is ""
IsEmptyText(lines) == lines = <<"">>

\* a markdown text opens a fenced block tagged "suggestion": the fence marker
\* directly followed by the tag
OpensSuggestionBlock(md) ==
    \E k \in DOMAIN md : md[k] = FENCE /\ k < Len(md) /\ md[k + 1] = TAG

\* a text holds a complete fenced suggestion block: the tagged fence ends its
\* line, and a later line starts with the closing fence
ContainsSuggestionBlock(s) ==
    \E i \in DOMAIN s, j \in DOMAIN s :
        /\ i + 3 <= j /\ j < Len(s)
        /\ s[i] = FENCE /\ s[i + 1] = TAG /\ s[i + 2] = NL
        /\ s[j] = NL /\ s[j + 1] = FENCE

\* String.prototype.includes("```suggestion") on a markdown text
IncludesSuggestionFence(md) ==
    \E k \in 1..(Len(md) - 1) : md[k] = FENCE /\ md[k + 1] = TAG

\* where /```suggestion\n([\s\S]*?)\n```/ can start in s, and where it then ends
ClosingFences(s, i) ==
    {j \in (i + 3)..(Len(s) - 1) : s[j] = NL /\ s[j + 1] = FENCE}

OpeningFences(s) ==
    {i \in 1..(Len(s) - 4) :
        /\ s[i] = FENCE /\ s[i + 1] = TAG /\ s[i + 2] = NL
        /\ ClosingFences(s, i) # {}}

\* responseText.match(/```suggestion\n([\s\S]*?)\n```/)[0], or <<>> for no match:
\* the leftmost opening fence, then the nearest closing fence (non-greedy)
MatchSuggestion(s) ==
    IF OpeningFences(s) = {} THEN <<>>
    ELSE LET i == Min(OpeningFences(s))
             j == Min(ClosingFences(s, i))
         IN SubSeq(s, i, j + 1)

\* String.prototype.trim() on a token text: blanks at both ends go
RECURSIVE Trim(_)
Trim(t) ==
    IF t = <<>> THEN t
    ELSE IF Head(t) = SP THEN Trim(Tail(t))
    ELSE IF t[Len(t)] = SP THEN Trim(SubSeq(t, 1, Len(t) - 1))
    ELSE t

\* responseText.match(/Rationale: (.*)/): is there a match, and its group 1
\* (the rest of the line after the first "Rationale: ")
HasRationale(s) == \E r \in 1..Len(s) : s[r] = RAT

RationaleGroup(s) ==
    LET r == Min({k \in 1..Len(s) : s[k] = RAT})
        ends == {k \in (r + 1)..Len(s) : s[k] = NL}
        e == IF ends = {} THEN Len(s) + 1 ELSE Min(ends)
    IN SubSeq(s, r + 1, e - 1)

----------------------------------------------------------------------------
(* Code Context Extractor *)

\* a plausible slip: the window reaches back from the target line only
getCodeContextBackOnly(fileContent, lineNumber, maxLines) ==
    IF IsEmptyText(fileContent) \/ lineNumber <= 0 \/ lineNumber > Len(fileContent)
    THEN <<"">>
    ELSE Join(Slice(fileContent,
                    IF lineNumber - 1 - maxLines > 0 THEN lineNumber - 1 - maxLines ELSE 0,
                    lineNumber))

\* a plausible slip: the test against lines.length is missing
getCodeContextNoUpperCheck(fileContent, lineNumber, maxLines) ==
    IF IsEmptyText(fileContent) \/ lineNumber <= 0 THEN <<"">>
    ELSE LET targetLineIndex == lineNumber - 1
             startLine == IF targetLineIndex - maxLines > 0
                          THEN targetLineIndex - maxLines ELSE 0
             endLine == IF targetLineIndex + maxLines < Len(fileContent) - 1
                        THEN targetLineIndex + maxLines ELSE Len(fileContent) - 1
         IN Join(Slice(fileContent, startLine, endLine + 1))

\* a plausible slip: slice is given the last index, which it excludes
getCodeContextExclusiveEnd(fileContent, lineNumber, maxLines) ==
    IF IsEmptyText(fileContent) \/ lineNumber <= 0 \/ lineNumber > Len(fileContent)
    THEN <<"">>
    ELSE LET targetLineIndex == lineNumber - 1
             startLine == IF targetLineIndex - maxLines > 0
                          THEN targetLineIndex - maxLines ELSE 0
             endLine == IF targetLineIndex + maxLines < Len(fileContent) - 1
                        THEN targetLineIndex + maxLines ELSE Len(fileContent) - 1
         IN Join(Slice(fileContent, startLine, endLine))

\* a plausible slip: the window is the commented line alone
getCodeContextTargetLineOnly(fileContent, lineNumber, maxLines) ==
    IF IsEmptyText(fileContent) \/ lineNumber <= 0 \/ lineNumber > Len(fileContent)
    THEN <<"">>
    ELSE Join(Slice(fileContent, lineNumber - 1, lineNumber))

\* getCodeContext(fileContent, lineNumber, maxLines); fileContent given as its lines
getCodeContext(fileContent, lineNumber, maxLines) ==
    IF IsEmptyText(fileContent) \/ lineNumber <= 0 THEN <<"">>
    ELSE LET lines == fileContent
             targetLineIndex == lineNumber - 1
         IN IF targetLineIndex < 0 \/ targetLineIndex >= Len(lines) THEN <<"">>
            ELSE LET startLine == IF targetLineIndex - maxLines > 0
                                  THEN targetLineIndex - maxLines ELSE 0
                     endLine == IF targetLineIndex + maxLines < Len(lines) - 1
                                THEN targetLineIndex + maxLines ELSE Len(lines) - 1
                 IN Join(Slice(lines, startLine, endLine + 1))

\* getOriginalCode(startLine, endLine, fileContent)
getOriginalCode(startLine, endLine, fileContent) ==
    LET lines == fileContent
        startLineIndex == startLine - 1
        endLineIndex == endLine - 1
    IN IF startLineIndex < 0 \/ endLineIndex >= Len(lines) THEN <<"">>
       ELSE Join(Slice(lines, startLineIndex, endLineIndex + 1))

----------------------------------------------------------------------------
(* Suggestion generator: AzureOpenAiLlmService *)

PlaceholderFormat ==
    <<FENCE, TAG, NL, "// LLM response was not in the expected format.", NL, FENCE>>
PlaceholderError ==
    <<FENCE, TAG, NL, "// Error occurred while generating suggestion.", NL, FENCE>>

\* What this.llm.invoke can do: reject with an error (whose message may be
\* empty), or resolve with a response text.
Responses ==
    { <<FENCE, TAG, NL, "code", NL, FENCE, NL, RAT, "why">>,
      <<"Sure:", NL, FENCE, TAG, NL, "code", NL, FENCE, NL, RAT, "why", SP>>,
      <<FENCE, TAG, NL, "code", NL, FENCE>>,
      <<FENCE, TAG, NL, "code", NL, FENCE, NL, RAT>>,
      <<FENCE, TAG, NL, "code">>,
      <<FENCE, TAG, "code", FENCE>>,
      <<RAT, "why">>,
      <<"no suggestion here">> }

InvokeOutcomes ==
    [kind : {"throw"}, message : {"", "quota exceeded"}, text : {<<>>}]
        \cup [kind : {"text"}, message : {""}, text : Responses]

\* an LlmSuggestion; error "" is the absent error, threw says that the promise
\* rejected instead of resolving with this value
Suggestion(md, rationale, error) ==
    [threw |-> FALSE, suggestionMarkdown |-> md, rationale |-> rationale, error |-> error]

Rejection(message) ==
    [threw |-> TRUE, suggestionMarkdown |-> <<>>, rationale |-> <<>>, error |-> message]

\* a plausible slip: the catch block logs and rethrows
generateSuggestionRethrows(invoked) ==
    IF invoked.kind = "throw" THEN Rejection(invoked.message)
    ELSE LET responseText == invoked.text
             suggestionMatch == MatchSuggestion(responseText)
         IN IF suggestionMatch # <<>>
            THEN Suggestion(suggestionMatch,
                            IF HasRationale(responseText)
                            THEN Trim(RationaleGroup(responseText))
                            ELSE <<"No rationale provided.">>,
                            "")
            ELSE Suggestion(PlaceholderFormat,
                            <<"Could not parse suggestion from LLM response.">>,
                            "LLM response parsing failed.")

\* a plausible slip: a response without a block is handed on as it is
generateSuggestionUnchecked(invoked) ==
    IF invoked.kind = "throw"
    THEN Suggestion(PlaceholderError,
                    <<"Failed to generate suggestion due to an internal error.">>,
                    IF invoked.message # "" THEN invoked.message
                    ELSE "Unknown error during LLM suggestion generation.")
    ELSE LET responseText == invoked.text
             suggestionMatch == MatchSuggestion(responseText)
         IN Suggestion(IF suggestionMatch # <<>> THEN suggestionMatch ELSE responseText,
                       IF HasRationale(responseText)
                       THEN Trim(RationaleGroup(responseText))
                       ELSE <<"No rationale provided.">>,
                       "")

\* generateSuggestion, from the llm.invoke call on (the try block and its catch)
generateSuggestion(invoked) ==
    IF invoked.kind = "throw"
    THEN Suggestion(PlaceholderError,
                    <<"Failed to generate suggestion due to an internal error.">>,
                    IF invoked.message # "" THEN invoked.message
                    ELSE "Unknown error during LLM suggestion generation.")
    ELSE LET responseText == invoked.text
             suggestionMatch == MatchSuggestion(responseText)
         IN IF suggestionMatch # <<>>
            THEN Suggestion(suggestionMatch,
                            IF HasRationale(responseText)
                            THEN Trim(RationaleGroup(responseText))
                            ELSE <<"No rationale provided.">>,
                            "")
            ELSE Suggestion(PlaceholderFormat,
                            <<"Could not parse suggestion from LLM response.">>,
                            "LLM response parsing failed.")

\* What any implementation of LlmService may resolve with: the results above and
\* results no AzureOpenAiLlmService produces (no fence at all, an error next
\* to a usable block, an unclosed fence).
LlmSuggestions ==
    {generateSuggestion(o) : o \in InvokeOutcomes}
      \cup { Suggestion(<<"code">>, <<"why">>, ""),
             Suggestion(<<>>, <<>>, ""),
             Suggestion(<<"code">>, <<>>, "model refused"),
             Suggestion(<<FENCE, TAG, NL, "code">>, <<"why">>, ""),
             Suggestion(<<FENCE, "ts", NL, "code", NL, FENCE>>, <<"why">>, "") }

----------------------------------------------------------------------------
(* Platform adapter: GitHubService, as main and processComment observe it *)

NoDetails == [owner |-> "", repo |-> "", pullNumber |-> 0, headRef |-> "", baseRef |-> ""]

\* the PullRequestDetails getPullRequestDetails resolves with
FetchedDetails ==
    [owner |-> "o", repo |-> "r", pullNumber |-> 42, headRef |-> "head", baseRef |-> "base"]

\* What the environment holds as PULL_REQUEST_URL || PULL_REQUEST_NUMBER
IdentifierEnvs == {"unset", "number", "pull_url", "github_other_url", "other"}

\* a plausible slip: every non-numeric identifier is taken for a URL
ScreenIdentifierAnyText(identEnv, ownerRepo) ==
    CASE identEnv = "unset" -> "exit"
      [] identEnv = "number" -> IF ownerRepo THEN "object" ELSE "number"
      [] OTHER -> "url"

\* main's screening of the identifier: "exit" for process.exit(1), else the
\* shape of prIdentifier handed on (ownerRepo: GITHUB_OWNER and GITHUB_REPO are set)
ScreenIdentifier(identEnv, ownerRepo) ==
    CASE identEnv = "unset" -> "exit"
      [] identEnv = "number" -> IF ownerRepo THEN "object" ELSE "number"
      [] identEnv \in {"pull_url", "github_other_url"} -> "url"
      [] OTHER -> "exit"

\* getPullRequestDetails up to its first await: TRUE when owner, repo and
\* pull_number are determined, FALSE when it throws
ResolvesIdentifier(prIdentifier, identEnv, ownerRepo) ==
    CASE prIdentifier = "object" -> TRUE
      [] prIdentifier = "number" -> ownerRepo
      [] OTHER -> identEnv = "pull_url"

\* The review comments GitHub lists. Line numbers are 1-based and 0 stands for
\* null; path "" stands for a missing path. A comment with a live line reports
\* it as original_line too; start_line is set only for a multi-line comment and
\* then lies before line; an outdated or file-level comment (no live line) has
\* no live range; a comment without a path is taken with line 1.
RawComments ==
    {r \in [path : {"", "f"}, line : 0..MaxLine, original_line : 0..MaxLine,
            start_line : 0..MaxLine] :
        /\ r.line # 0 => r.original_line = r.line
        /\ r.line = 0 => r.start_line = 0
        /\ r.start_line # 0 => r.start_line < r.line
        /\ r.path = "" => r.line = 1 /\ r.start_line = 0}

\* a plausible slip: the original line is preferred to the live one
MapReviewCommentOriginalFirst(id, r) ==
    [id |-> id,
     filePath |-> r.path,
     endLineNumber |-> IF r.original_line # 0 THEN r.original_line ELSE r.line,
     startLineNumber |-> r.start_line]

\* getPullRequestComments: the mapping of one review comment
MapReviewComment(id, r) ==
    [id |-> id,
     filePath |-> r.path,
     endLineNumber |-> IF r.line # 0 THEN r.line ELSE r.original_line,
     startLineNumber |-> r.start_line]

\* The files the platform serves: the empty file, files of n distinct lines,
\* and the longest of them with an empty last line (the text ends in a newline)
LineNames == <<"a", "b", "c", "d", "e", "f", "g">>

FileTexts ==
    {<<"">>} \cup {[k \in 1..n |-> LineNames[k]] : n \in 1..MaxFileLines}
             \cup {[k \in 1..MaxFileLines |->
                        IF k = MaxFileLines THEN "" ELSE LineNames[k]]}

\* What octokit.repos.getContent can do: reject, or resolve with a directory
\* listing, a non-file entry or a file
ContentResponses ==
    [type : {"error", "dir", "symlink"}, lines : {<<"">>}]
        \cup [type : {"file"}, lines : FileTexts]

\* getFileContent: threw, or the FileContent it resolves with
getFileContent(response) ==
    IF response.type # "file"
    THEN [threw |-> TRUE, content |-> <<"">>]
    ELSE [threw |-> FALSE, content |-> response.lines]

----------------------------------------------------------------------------
(* Bookkeeping of adapter calls *)

\* an adapter call in flight: the operation, the comment it is made for (0 for
\* main's own calls) and its arguments
Call(op, c) ==
    [op |-> op, c |-> c, ident |-> "", path |-> "", ref |-> "",
     codeContext |-> <<>>, originalCode |-> <<>>,
     replyTo |-> 0, suggestion |-> <<>>, explanation |-> <<>>]

\* an entry of a comment's steps: the call being issued ("call"), resolving
\* ("ok") or rejecting ("throw"); for a resolved getFileContent also what the
\* file holds at the comment's end line (input); for a resolved
\* generateSuggestion also whether the result carries an error and whether its
\* markdown has the fence
Event(op, ev) ==
    [op |-> op, ev |-> ev, input |-> "", error |-> FALSE, fence |-> FALSE,
     placeholder |-> FALSE]

\* what a fetched file holds at a line number: nothing ("no line": the file is
\* empty or shorter) or a line, empty or not
Fetched(content, lineNumber) ==
    IF IsEmptyText(content) \/ lineNumber \notin 1..Len(content) THEN "no line"
    ELSE "line"

\* what the model did, as far as the generator's caller can tell it apart
Observed(invoked) ==
    IF invoked.kind = "throw" THEN "rejected"
    ELSE IF ContainsSuggestionBlock(invoked.text) THEN "block"
    ELSE "no block"

\* the entry for a settled generateSuggestion: input is what the model did
\* ("" when unknown), the rest describes the result
Settled(res, input) ==
    [op |-> "generateSuggestion", ev |-> IF res.threw THEN "throw" ELSE "ok",
     input |-> input,
     error |-> res.error # "",
     fence |-> OpensSuggestionBlock(res.suggestionMarkdown),
     placeholder |-> res.suggestionMarkdown \in {PlaceholderFormat, PlaceholderError}]

InFlight(op, i) == {call \in calls : call.op = op /\ call.c = i}

\* no function is under examination
NoProbe == [fn |-> "", arg |-> <<>>, out |-> <<>>, done |-> FALSE]

----------------------------------------------------------------------------
(* Run driver: main *)

\* a function under examination, not yet applied
Probe(fn, arg) == [fn |-> fn, arg |-> arg, out |-> <<>>, done |-> FALSE]

\* main has not begun
NotStarted ==
    /\ pc = "start"
    /\ exitCode = -1
    /\ cause = ""
    /\ calls = {}
    /\ prDetails = NoDetails
    /\ comments = <<>>
    /\ idx = 0
    /\ cpc = <<>>
    /\ outcome = <<>>
    /\ steps = <<>>

Init == NotStarted /\ probe = NoProbe

\* process.exit(1)
ProcessExit(why) ==
    /\ pc' = "exit"
    /\ exitCode' = 1
    /\ cause' = why

\* a plausible slip: the catch block logs the error and main returns
MainCatchLogsOnly(why) ==
    /\ pc' = "done"
    /\ exitCode' = 0
    /\ cause' = why

\* main's catch block
MainCatch(why) == ProcessExit(why)

\* a plausible slip: an empty listing is reported as a failure
MainNoCommentsFails ==
    /\ pc' = "exit"
    /\ exitCode' = 1
    /\ cause' = "no comments"

\* main's early return on an empty listing
MainNoComments ==
    /\ pc' = "done"
    /\ exitCode' = 0
    /\ cause' = "no comments"

\* a plausible slip: the test looks at the path alone
EligibleByPath(comment) == comment.filePath # ""

\* comment.filePath && comment.endLineNumber, the test main makes before it
\* calls processComment and processComment makes again on entry
Eligible(comment) == comment.filePath # "" /\ comment.endLineNumber # 0

\* main from its start to the first await, in a given environment: the
\* identifier is screened, the two services are constructed (servicesOk: their
\* environment is complete) and getPullRequestDetails runs up to its request
MainStartWith(identEnv, ownerRepo, servicesOk) ==
    LET prIdentifier == ScreenIdentifier(identEnv, ownerRepo) IN
    IF prIdentifier = "exit"
    THEN ProcessExit("identifier") /\ UNCHANGED calls
    ELSE IF ~servicesOk
    THEN MainCatch("construct") /\ UNCHANGED calls
    ELSE IF ~ResolvesIdentifier(prIdentifier, identEnv, ownerRepo)
    THEN MainCatch("resolve") /\ UNCHANGED calls
    ELSE /\ pc' = "details"
         /\ calls' = {[Call("getPullRequestDetails", 0) EXCEPT !.ident = prIdentifier]}
         /\ UNCHANGED <<exitCode, cause>>

\* main from its start to the first await, in any environment
MainStart ==
    /\ pc = "start"
    /\ \E identEnv \in IdentifierEnvs, ownerRepo \in BOOLEAN, servicesOk \in BOOLEAN :
         MainStartWith(identEnv, ownerRepo, servicesOk)
    /\ UNCHANGED <<prDetails, comments, idx, cpc, outcome, steps, probe>>

\* getPullRequestDetails resolves or rejects; on success main goes on to
\* getPullRequestComments
DetailsReturn ==
    /\ pc = "details"
    /\ \E call \in InFlight("getPullRequestDetails", 0), ok \in BOOLEAN :
         IF ok
         THEN /\ prDetails' = FetchedDetails
              /\ calls' = (calls \ {call}) \cup {Call("getPullRequestComments", 0)}
              /\ pc' = "comments"
              /\ UNCHANGED <<exitCode, cause>>
         ELSE /\ MainCatch("details")
              /\ calls' = calls \ {call}
              /\ UNCHANGED prDetails
    /\ UNCHANGED <<comments, idx, cpc, outcome, steps, probe>>

\* getPullRequestComments resolves with the mapped comments or rejects
CommentsReturn ==
    /\ pc = "comments"
    /\ \E call \in InFlight("getPullRequestComments", 0) :
         /\ calls' = calls \ {call}
         /\ \/ /\ MainCatch("comments")
               /\ UNCHANGED <<comments, idx, cpc, outcome, steps>>
            \/ \E n \in 0..MaxComments : \E raw \in [1..n -> RawComments] :
                 /\ comments' = [k \in 1..n |-> MapReviewComment(k, raw[k])]
                 /\ cpc' = [k \in 1..n |-> "idle"]
                 /\ outcome' = [k \in 1..n |-> "Pending"]
                 /\ steps' = [k \in 1..n |-> <<>>]
                 /\ idx' = 1
                 /\ IF n = 0 THEN MainNoComments
                    ELSE pc' = "loop" /\ UNCHANGED <<exitCode, cause>>
    /\ UNCHANGED <<prDetails, probe>>

----------------------------------------------------------------------------
(* Comment resolution pipeline: processComment *)

\* processComment returns for comment i with the outcome its last log line names
Return(i, result, inFlight, log) ==
    /\ calls' = inFlight
    /\ cpc' = [cpc EXCEPT ![i] = "returned"]
    /\ outcome' = [outcome EXCEPT ![i] = result]
    /\ steps' = [steps EXCEPT ![i] = log]

\* an exception leaves processComment for comment i
Throw(i, inFlight, log) ==
    /\ calls' = inFlight
    /\ cpc' = [cpc EXCEPT ![i] = "threw"]
    /\ steps' = [steps EXCEPT ![i] = log]
    /\ UNCHANGED outcome

\* processComment suspends for comment i on the adapter call it has just issued
Await(i, call, inFlight, log) ==
    /\ calls' = inFlight \cup {call}
    /\ cpc' = [cpc EXCEPT ![i] = call.op]
    /\ steps' = [steps EXCEPT ![i] = Append(log, Event(call.op, "call"))]
    /\ UNCHANGED outcome

\* a plausible slip: a file already fetched for an earlier comment of the same
\* path is taken from a cache instead of being fetched again
ProcessCommentEntryCached(i) ==
    LET comment == comments[i]
        cached == \E j \in 1..(i - 1) :
                      /\ comments[j].filePath = comment.filePath
                      /\ \E k \in DOMAIN steps[j] :
                             steps[j][k].op = "getFileContent" /\ steps[j][k].ev = "ok"
    IN IF ~Eligible(comment)
       THEN Return(i, "Skipped", calls, steps[i])
       ELSE IF cached
       THEN Await(i, [Call("generateSuggestion", i) EXCEPT
                          !.path = comment.filePath,
                          !.codeContext = <<LineNames[1]>>,
                          !.originalCode = <<LineNames[1]>>],
                  calls, steps[i])
       ELSE Await(i, [Call("getFileContent", i) EXCEPT
                          !.path = comment.filePath, !.ref = prDetails.headRef],
                  calls, steps[i])

\* processComment from its entry to the getFileContent request
ProcessCommentEntry(i) ==
    LET comment == comments[i] IN
    IF ~Eligible(comment)
    THEN Return(i, "Skipped", calls, steps[i])
    ELSE Await(i, [Call("getFileContent", i) EXCEPT
                       !.path = comment.filePath, !.ref = prDetails.headRef],
               calls, steps[i])

\* a plausible slip: the loop starts processComment without awaiting it
CallProcessCommentNoAwait(i) ==
    /\ pc' = "loop"
    /\ idx' = idx + 1
    /\ ProcessCommentEntry(i)

\* await processComment(comment, prDetails, vcsService, llmService)
CallProcessComment(i) ==
    /\ pc' = "await"
    /\ idx' = idx
    /\ ProcessCommentEntry(i)

\* one pass of main's for..of loop, and the end of main after the last one
MainLoop ==
    /\ pc = "loop"
    /\ IF idx > Len(comments)
       THEN /\ pc' = "done"
            /\ exitCode' = 0
            /\ cause' = "finished"
            /\ UNCHANGED <<calls, idx, cpc, outcome, steps>>
       ELSE IF Eligible(comments[idx])
       THEN /\ CallProcessComment(idx)
            /\ UNCHANGED <<exitCode, cause>>
       ELSE /\ outcome' = [outcome EXCEPT ![idx] = "Skipped"]
            /\ idx' = idx + 1
            /\ UNCHANGED <<pc, exitCode, cause, calls, cpc, steps>>
    /\ UNCHANGED <<prDetails, comments, probe>>

\* main resumes when the awaited processComment has settled: the next pass
\* after a return, the catch block after an exception
MainResume ==
    /\ pc = "await"
    /\ idx \in DOMAIN cpc
    /\ cpc[idx] \in {"returned", "threw"}
    /\ IF cpc[idx] = "returned"
       THEN /\ pc' = "loop"
            /\ idx' = idx + 1
            /\ UNCHANGED <<exitCode, cause>>
       ELSE /\ MainCatch("comment")
            /\ UNCHANGED idx
    /\ UNCHANGED <<calls, prDetails, comments, cpc, outcome, steps, probe>>

\* a plausible slip: the empty-context check is missing
ContextNeverUnavailable(codeContext) == FALSE

\* !codeContext
ContextUnavailable(codeContext) == IsEmptyText(codeContext)

\* a plausible slip: the start line is passed on as it is, absent or not
OriginalCodeStartAsGiven(comment) == comment.startLineNumber

\* comment.startLineNumber ?? comment.endLineNumber
OriginalCodeStart(comment) ==
    IF comment.startLineNumber # 0 THEN comment.startLineNumber
    ELSE comment.endLineNumber

\* getFileContent settles for comment i: the catch block, the context window,
\* the context check, the original code and the generateSuggestion request
ReadFileReturn(i) ==
    /\ pc # "exit"
    /\ cpc[i] = "getFileContent"
    /\ \E call \in InFlight("getFileContent", i), response \in ContentResponses :
         LET comment == comments[i]
             fileContent == getFileContent(response)
             log == Append(steps[i],
                           IF fileContent.threw THEN Event("getFileContent", "throw")
                           ELSE [Event("getFileContent", "ok") EXCEPT
                                     !.input = Fetched(fileContent.content,
                                                       comment.endLineNumber)])
             codeContext ==
                 IF fileContent.threw THEN <<"">>
                 ELSE getCodeContext(fileContent.content, comment.endLineNumber,
                                     MAX_CONTEXT_LINES)
         IN IF ContextUnavailable(codeContext)
            THEN Return(i, "Skipped", calls \ {call}, log)
            ELSE IF fileContent.threw
            THEN Throw(i, calls \ {call}, log)   \* fileContent!.content of null
            ELSE LET originalCode ==
                         getOriginalCode(OriginalCodeStart(comment),
                                         comment.endLineNumber, fileContent.content)
                 IN Await(i, [Call("generateSuggestion", i) EXCEPT
                                  !.path = comment.filePath,
                                  !.codeContext = codeContext,
                                  !.originalCode = originalCode],
                          calls \ {call}, log)
    /\ UNCHANGED <<pc, exitCode, cause, prDetails, comments, idx, probe>>

\* a plausible slip: only the fence is looked for
ValidationFailsFenceOnly(res) == ~IncludesSuggestionFence(res.suggestionMarkdown)

\* a plausible slip: only the error is looked at
ValidationFailsErrorOnly(res) == res.error # ""

\* suggestionResult.error || !suggestionResult.suggestionMarkdown.includes("```suggestion")
ValidationFails(res) ==
    res.error # "" \/ ~IncludesSuggestionFence(res.suggestionMarkdown)

\* the explanation processComment hands to postSuggestionComment: <<>> stands
\* for undefined
Explanation(res) ==
    IF res.rationale # <<>> THEN <<RAT>> \o res.rationale ELSE <<>>

\* processComment after generateSuggestion has settled with res: the validation
\* and the postSuggestionComment request
AfterGenerate(i, call, res, input) ==
    LET log == Append(steps[i], Settled(res, input)) IN
    IF res.threw
    THEN Throw(i, calls \ {call}, log)
    ELSE IF ValidationFails(res)
    THEN Return(i, "Failed", calls \ {call}, log)
    ELSE Await(i, [Call("postSuggestionComment", i) EXCEPT
                       !.replyTo = comments[i].id,
                       !.suggestion = res.suggestionMarkdown,
                       !.explanation = Explanation(res)],
               calls \ {call}, log)

\* generateSuggestion of AzureOpenAiLlmService settles for comment i
GenerateReturn(i) ==
    /\ pc # "exit"
    /\ cpc[i] = "generateSuggestion"
    /\ \E call \in InFlight("generateSuggestion", i), invoked \in InvokeOutcomes :
         AfterGenerate(i, call, generateSuggestion(invoked), Observed(invoked))
    /\ UNCHANGED <<pc, exitCode, cause, prDetails, comments, idx, probe>>

\* generateSuggestion of any LlmService settles for comment i
GenerateReturnAny(i) ==
    /\ pc # "exit"
    /\ cpc[i] = "generateSuggestion"
    /\ \E call \in InFlight("generateSuggestion", i), res \in LlmSuggestions :
         AfterGenerate(i, call, res, "")
    /\ UNCHANGED <<pc, exitCode, cause, prDetails, comments, idx, probe>>

\* a plausible slip: a failed post is tried again
OnPostFailureRetries(i, call) ==
    Await(i, call, calls \ {call},
          Append(steps[i], Event("postSuggestionComment", "throw")))

\* a plausible slip: the catch block is missing and the success line is logged
\* whether or not the post went through
OnPostFailureCountsAsPosted(i, call) ==
    Return(i, "Posted", calls \ {call},
           Append(steps[i], Event("postSuggestionComment", "throw")))

\* a plausible slip: the catch block logs the failure and throws it on
OnPostFailureRethrows(i, call) ==
    Throw(i, calls \ {call},
          Append(steps[i], Event("postSuggestionComment", "throw")))

\* the catch block around postSuggestionComment
OnPostFailure(i, call) ==
    Return(i, "Failed", calls \ {call},
           Append(steps[i], Event("postSuggestionComment", "throw")))

\* postSuggestionComment settles for comment i
PostReturn(i) ==
    /\ pc # "exit"
    /\ cpc[i] = "postSuggestionComment"
    /\ \E call \in InFlight("postSuggestionComment", i), ok \in BOOLEAN :
         IF ok
         THEN Return(i, "Posted", calls \ {call},
                     Append(steps[i], Event("postSuggestionComment", "ok")))
         ELSE OnPostFailure(i, call)
    /\ UNCHANGED <<pc, exitCode, cause, prDetails, comments, idx, probe>>

----------------------------------------------------------------------------
(* Specifications *)

Comment == DOMAIN comments

Next ==
    \/ MainStart
    \/ DetailsReturn
    \/ CommentsReturn
    \/ MainLoop
    \/ MainResume
    \/ \E i \in Comment : ReadFileReturn(i)
    \/ \E i \in Comment : GenerateReturn(i)
    \/ \E i \in Comment : PostReturn(i)

\* the program as main wires it: GitHubService and AzureOpenAiLlmService
Spec == Init /\ [][Next]_vars

\* the same program on a platform and a generator whose every call settles:
\* each pending promise resolves or rejects, and the event loop then runs the
\* continuation that awaits it
SpecLive == Spec /\ WF_vars(Next)

NextIface ==
    \/ MainStart
    \/ DetailsReturn
    \/ CommentsReturn
    \/ MainLoop
    \/ MainResume
    \/ \E i \in Comment : ReadFileReturn(i)
    \/ \E i \in Comment : GenerateReturn(i)
    \/ \E i \in Comment : GenerateReturnAny(i)
    \/ \E i \in Comment : PostReturn(i)

\* the pipeline against the LlmService interface: the generator may be
\* AzureOpenAiLlmService or any implementation that resolves with an LlmSuggestion
SpecIface == Init /\ [][NextIface]_vars

----------------------------------------------------------------------------
(* The extractor's functions, each called on its own *)

\* the function under examination returns result
Returns(fn, result) ==
    /\ probe.fn = fn
    /\ ~probe.done
    /\ probe' = [probe EXCEPT !.out = result, !.done = TRUE]
    /\ UNCHANGED <<pc, exitCode, cause, calls, prDetails, comments, idx, cpc, outcome, steps>>

\* file texts of up to MaxProbeLines lines: line k reads LineNames[k] or is empty
ProbeTexts ==
    UNION {{[k \in 1..n |-> IF k \in S THEN "" ELSE LineNames[k]] : S \in SUBSET (1..n)}
             : n \in 1..MaxProbeLines}

\* line numbers: in range, zero, negative, past the end
ProbeLineNumbers == (0 - 2)..(MaxProbeLines + 1)

\* window sizes: small ones, a negative one, and the one the pipeline uses
ProbeWindows == (0 - 1)..MaxWindow \cup {MAX_CONTEXT_LINES}

ExtractorProbes ==
    {Probe("getCodeContext", a) :
        a \in [fileContent : ProbeTexts, lineNumber : ProbeLineNumbers,
               maxLines : ProbeWindows]}
      \cup
    {Probe("getOriginalCode", a) :
        a \in [startLine : ProbeLineNumbers, endLine : ProbeLineNumbers,
               fileContent : ProbeTexts]}

CallGetCodeContext ==
    /\ probe.fn = "getCodeContext"
    /\ Returns("getCodeContext",
               getCodeContext(probe.arg.fileContent, probe.arg.lineNumber,
                              probe.arg.maxLines))

CallGetOriginalCode ==
    /\ probe.fn = "getOriginalCode"
    /\ Returns("getOriginalCode",
               getOriginalCode(probe.arg.startLine, probe.arg.endLine,
                               probe.arg.fileContent))

InitExtractor == NotStarted /\ probe \in ExtractorProbes

NextExtractor ==
    \/ CallGetCodeContext
    \/ CallGetOriginalCode

\* getCodeContext and getOriginalCode applied to any file text and line numbers
SpecExtractor == InitExtractor /\ [][NextExtractor]_vars

----------------------------------------------------------------------------
(* postSuggestionComment of both adapters, each called on its own with what *)
(* processComment hands it for a generated suggestion                       *)

REPLYING == "Replying to (or inspired by) comment ID "

\* the body both adapters compute first: the explanation, if any, a line
\* break, the suggestion
ExplainedSuggestion(suggestion, explanation) ==
    IF explanation # <<>> THEN explanation \o <<NL>> \o suggestion ELSE suggestion

\* what postSuggestionComment did: whether it threw, and the request it sent
\* before (position 0: none)
Posting(threw, sent, body, commentId, position) ==
    [threw |-> threw, sent |-> sent, body |-> body, comment_id |-> commentId,
     position |-> position]

\* GitHubService.postSuggestionComment; created: createReplyForReviewComment resolves
GitHubPostSuggestionComment(replyToCommentId, suggestion, explanation, created) ==
    Posting(~created, TRUE, ExplainedSuggestion(suggestion, explanation),
            replyToCommentId, 0)

\* a note of a discussion thread; position 0: the note has none
Note(body, position) == [body |-> body, position |-> position]

\* What MergeRequestDiscussions.show can do for the id it is given: reject, or
\* resolve with a thread of no notes, of the reviewer's note (with a position
\* or without), or of that note and an answer to it
Threads ==
    [found : {FALSE}, notes : {<<>>}]
      \cup [found : {TRUE},
            notes : {<<>>}
                      \cup {<<Note(<<"please fix">>, p)>> : p \in 0..1}
                      \cup {<<Note(<<"please fix">>, p), Note(<<"will do">>, p)>> : p \in 0..1}]

\* the thread of a review comment on GitHub, where every comment listed has a position
ReviewThread == [found |-> TRUE, notes |-> <<Note(<<"please fix">>, 1)>>]

\* GitLabService.postSuggestionComment; thread is what show does, created
\* says whether MergeRequestDiscussions.create resolves
GitLabPostSuggestionComment(replyToCommentId, suggestion, explanation, thread, created) ==
    LET discussionBody == ExplainedSuggestion(suggestion, explanation)
        nothing == Posting(TRUE, FALSE, <<>>, 0, 0)
    IN IF ~thread.found THEN nothing
       ELSE IF thread.notes = <<>> THEN nothing
       ELSE LET firstThreadNote == thread.notes[1]
                originalDiscussionThread == TRUE    \* an object, and so truthy
                newDiscussionNote ==
                    IF originalDiscussionThread
                    THEN [body |-> firstThreadNote.body,
                          position |-> firstThreadNote.position]
                    ELSE [body |-> <<REPLYING, ToString(replyToCommentId), ":", NL>>
                                     \o discussionBody,
                          position |-> firstThreadNote.position]
            IN Posting(~created, TRUE, newDiscussionNote.body, 0,
                       firstThreadNote.position)

\* the results of generateSuggestion that pass processComment's validation,
\* each with the response text it was made from
PostableOutcomes ==
    {o \in InvokeOutcomes : ~ValidationFails(generateSuggestion(o))}

PostProbes ==
    {Probe("postSuggestionComment", a) :
        a \in [platform : {"github"}, invoked : PostableOutcomes,
               replyToCommentId : 1..MaxComments, thread : {ReviewThread}]}
      \cup
    {Probe("postSuggestionComment", a) :
        a \in [platform : {"gitlab"}, invoked : PostableOutcomes,
               replyToCommentId : 1..MaxComments, thread : Threads]}

\* step 4 of processComment against GitHubService
CallGitHubPost ==
    /\ probe.fn = "postSuggestionComment"
    /\ probe.arg.platform = "github"
    /\ \E created \in BOOLEAN :
         LET res == generateSuggestion(probe.arg.invoked) IN
         Returns("postSuggestionComment",
                 GitHubPostSuggestionComment(probe.arg.replyToCommentId,
                                             res.suggestionMarkdown,
                                             Explanation(res), created))

\* step 4 of processComment against GitLabService
CallGitLabPost ==
    /\ probe.fn = "postSuggestionComment"
    /\ probe.arg.platform = "gitlab"
    /\ \E created \in BOOLEAN :
         LET res == generateSuggestion(probe.arg.invoked) IN
         Returns("postSuggestionComment",
                 GitLabPostSuggestionComment(probe.arg.replyToCommentId,
                                             res.suggestionMarkdown,
                                             Explanation(res), probe.arg.thread,
                                             created))

InitPost == NotStarted /\ probe \in PostProbes

NextPost ==
    \/ CallGitHubPost
    \/ CallGitLabPost

\* a validated suggestion posted through either adapter
SpecPost == InitPost /\ [][NextPost]_vars

----------------------------------------------------------------------------
(* The adapters' read operations, each called on its own *)

\* The review comments octokit.pulls.listReviewComments can return: line is
\* the line in the current diff (0: null, the comment is outdated or on the
\* whole file), original_line the line when the comment was made, start_line
\* the first line of a live multi-line comment.  Line 2 of the current diff
\* was line 1 or line 2 when the comment was made.
ReviewComments ==
    {r \in [path : {"f"}, line : {0, 2}, original_line : 0..2, start_line : 0..1] :
        /\ r.line # 0 => r.original_line # 0
        /\ r.line = 0 => r.start_line = 0}

\* GitHubService.getPullRequestComments on a listing
GitHubGetPullRequestComments(reviewComments) ==
    [k \in DOMAIN reviewComments |-> MapReviewComment(k, reviewComments[k])]

\* The notes MergeRequestNotes.all can return: diff notes, which carry a
\* position unless the platform withholds it, discussion notes and plain
\* notes (type "null"), which carry none.  A position names the new line, the
\* old line or both (0: absent).
NoPosition == [new_path |-> "", old_path |-> "", new_line |-> 0, old_line |-> 0]

Positions ==
    {q \in [new_path : {"f"}, old_path : {"g"}, new_line : {0, 2},
            old_line : {0, 1}] : q.new_line # 0 \/ q.old_line # 0}

Notes ==
    [id : {0}, type : {"DiffNote"}, resolvable : BOOLEAN, hasPosition : {TRUE},
     position : Positions]
      \cup [id : {0}, type : {"DiffNote", "DiscussionNote", "null"}, resolvable : BOOLEAN,
            hasPosition : {FALSE}, position : {NoPosition}]

\* note.type === "DiffNote" && note.resolvable
IsResolvableDiffNote(note) == note.type = "DiffNote" /\ note.resolvable

\* the mapping of one note; "" and 0 stand for undefined
MapNote(note) ==
    [id |-> note.id,
     filePath |-> IF ~note.hasPosition THEN ""
                  ELSE IF note.position.new_path # "" THEN note.position.new_path
                  ELSE note.position.old_path,
     endLineNumber |-> IF ~note.hasPosition THEN 0
                       ELSE IF note.position.new_line # 0 THEN note.position.new_line
                       ELSE note.position.old_line,
     startLineNumber |-> 0]

\* GitLabService.getPullRequestComments on a listing
GitLabGetPullRequestComments(notes) ==
    LET kept == SelectSeq(notes, IsResolvableDiffNote)
    IN [k \in DOMAIN kept |-> MapNote(kept[k])]

\* parseInt(part, 10) of a path part; NaN is held as -1
NaN == 0 - 1

ParseInt(part) ==
    CASE part = "42" -> 42
      [] part = "0" -> 0
      [] OTHER -> NaN

\* an identifier given to getPullRequestDetails: an object, a number, a string
\* that Number() reads as a number, a string that new URL() parses (held as
\* the non-empty parts of its path), or any other string.  A repository is
\* held as the segments of its path: one on GitHub (the name), one or more on
\* GitLab (the project path); <<>> is the empty string.
Identifier(shape, owner, repo, number, parts) ==
    [shape |-> shape, owner |-> owner, repo |-> repo, number |-> number, parts |-> parts]

UrlPaths ==
    { <<"o", "r", "pull", "42">>,
      <<"o", "r", "pull", "42", "files">>,
      <<"o", "r", "pull", "x">>,
      <<"o", "r", "pull">>,
      <<"o", "r", "issues", "42">>,
      <<"g", "r", "-", "merge_requests", "42">>,
      <<"g", "s", "r", "-", "merge_requests", "42">>,
      <<"g", "r", "-", "merge_requests", "x">>,
      <<"g", "r", "-", "merge_requests">>,
      <<"g", "r", "merge_requests", "42">>,
      <<"-", "merge_requests", "42">>,
      <<>> }

StringIdentifiers ==
    {Identifier("number", "", <<>>, n, <<>>) : n \in {0, 42}}
      \cup {Identifier("numeric string", "", <<>>, n, <<>>) : n \in {0, 42}}
      \cup {Identifier("url", "", <<>>, 0, parts) : parts \in UrlPaths}
      \cup {Identifier("text", "", <<>>, 0, <<>>)}

GitHubIdentifiers ==
    {Identifier("object", owner, repo, n, <<>>) :
        owner \in {"", "o"}, repo \in {<<>>, <<"r">>}, n \in {0, 42}}
      \cup StringIdentifiers

GitLabIdentifiers ==
    {Identifier("object", owner, repo, n, <<>>) :
        owner \in {"", "o"}, repo \in {<<>>, <<"g", "r">>}, n \in {0, 42}}
      \cup StringIdentifiers

\* the environment: GITHUB_OWNER, GITHUB_REPO, GITLAB_PROJECT_PATH
Env(owner, repo, projectPath) ==
    [owner |-> owner, repo |-> repo, projectPath |-> projectPath]

\* no PullRequestDetails
Unresolved == [NoDetails EXCEPT !.repo = <<>>]

\* what getPullRequestDetails did: whether it threw, whether it had sent its
\* request by then, and the PullRequestDetails it resolved with
Resolution(threw, requested, details) ==
    [threw |-> threw, requested |-> requested, details |-> details]

\* the request for the pull request (owner, repo, number), and its answer:
\* fetched says whether pulls.get / MergeRequests.show resolves
Fetch(owner, repo, number, fetched) ==
    IF ~fetched THEN Resolution(TRUE, TRUE, Unresolved)
    ELSE Resolution(FALSE, TRUE,
                    [owner |-> owner, repo |-> repo, pullNumber |-> number,
                     headRef |-> "head", baseRef |-> "base"])

\* owner, repo and pull_number as GitHubService.getPullRequestDetails
\* determines them; ok FALSE: an error is thrown on the way
GitHubTarget(ok, owner, repo, number) ==
    [ok |-> ok, owner |-> owner, repo |-> repo, pull_number |-> number]

\* a plausible slip: any path of four parts is taken for a pull request URL
GitHubParseUrlAnyPath(parts) ==
    IF Len(parts) >= 4
    THEN GitHubTarget(TRUE, parts[1], <<parts[2]>>, ParseInt(parts[4]))
    ELSE GitHubTarget(FALSE, "", <<>>, 0)

\* the URL branch: pathParts.length >= 4 && pathParts[2] === "pull"
GitHubParseUrl(parts) ==
    IF Len(parts) >= 4 /\ parts[3] = "pull"
    THEN GitHubTarget(TRUE, parts[1], <<parts[2]>>, ParseInt(parts[4]))
    ELSE GitHubTarget(FALSE, "", <<>>, 0)

\* GitHubService.getPullRequestDetails; env holds GITHUB_OWNER and GITHUB_REPO
GitHubGetPullRequestDetails(prIdentifier, env, fetched) ==
    LET target ==
            CASE prIdentifier.shape = "object" ->
                   GitHubTarget(TRUE, prIdentifier.owner, prIdentifier.repo,
                                prIdentifier.number)
              [] prIdentifier.shape \in {"number", "numeric string"} ->
                   GitHubTarget(env.owner # "" /\ env.repo # <<>>, env.owner, env.repo,
                                prIdentifier.number)
              [] prIdentifier.shape = "url" -> GitHubParseUrl(prIdentifier.parts)
              [] OTHER -> GitHubTarget(FALSE, "", <<>>, 0)
    IN IF ~target.ok THEN Resolution(TRUE, FALSE, Unresolved)
       ELSE IF target.owner = "" \/ target.repo = <<>> \/ target.pull_number \in {0, NaN}
       THEN Resolution(TRUE, FALSE, Unresolved)
       ELSE Fetch(target.owner, target.repo, target.pull_number, fetched)

\* parseGitLabMrUrl on the parts of the URL's path: projectPath (<<>> for a
\* null result) and mrIid
ParseGitLabMrUrl(pathParts) ==
    LET at == {k \in DOMAIN pathParts : pathParts[k] = "merge_requests"}
        none == [projectPath |-> <<>>, mrIid |-> 0]
    IN IF at = {} THEN none
       ELSE LET mrIndex == Min(at) - 1 IN     \* 0-based, as indexOf gives it
            IF mrIndex > 1 /\ pathParts[mrIndex] = "-" /\ Len(pathParts) > mrIndex + 1
            THEN LET projectPath == Slice(pathParts, 0, mrIndex - 1)
                     mrIid == ParseInt(pathParts[mrIndex + 2])
                 IN IF projectPath # <<>> /\ mrIid # NaN
                    THEN [projectPath |-> projectPath, mrIid |-> mrIid]
                    ELSE none
            ELSE none

\* GitLabService.getPullRequestDetails; env holds GITLAB_PROJECT_PATH
GitLabGetPullRequestDetails(prIdentifier, env, fetched) ==
    LET parsed == ParseGitLabMrUrl(prIdentifier.parts)
        target ==
            CASE prIdentifier.shape = "object" ->
                   [ok |-> TRUE, projectPath |-> prIdentifier.repo,
                    merge_request_iid |-> prIdentifier.number]
              [] prIdentifier.shape = "number" ->
                   [ok |-> env.projectPath # <<>>, projectPath |-> env.projectPath,
                    merge_request_iid |-> prIdentifier.number]
              [] prIdentifier.shape = "url" ->
                   [ok |-> parsed.projectPath # <<>>, projectPath |-> parsed.projectPath,
                    merge_request_iid |-> parsed.mrIid]
              [] OTHER -> [ok |-> FALSE, projectPath |-> <<>>, merge_request_iid |-> 0]
    IN IF ~target.ok THEN Resolution(TRUE, FALSE, Unresolved)
       ELSE IF target.projectPath = <<>> \/ target.merge_request_iid \in {0, NaN}
       THEN Resolution(TRUE, FALSE, Unresolved)
       ELSE Fetch(Head(target.projectPath), target.projectPath,
                  target.merge_request_iid, fetched)

DetailsProbes ==
    {Probe("getPullRequestDetails", a) :
        a \in [platform : {"github"}, prIdentifier : GitHubIdentifiers,
               env : {Env(owner, repo, <<>>) : owner \in {"", "o"},
                                                repo \in {<<>>, <<"r">>}}]}
      \cup
    {Probe("getPullRequestDetails", a) :
        a \in [platform : {"gitlab"}, prIdentifier : GitLabIdentifiers,
               env : {Env("", <<>>, projectPath) : projectPath \in {<<>>, <<"g", "r">>}}]}

CallGitHubDetails ==
    /\ probe.fn = "getPullRequestDetails"
    /\ probe.arg.platform = "github"
    /\ \E fetched \in BOOLEAN :
         Returns("getPullRequestDetails",
                 GitHubGetPullRequestDetails(probe.arg.prIdentifier, probe.arg.env,
                                             fetched))

CallGitLabDetails ==
    /\ probe.fn = "getPullRequestDetails"
    /\ probe.arg.platform = "gitlab"
    /\ \E fetched \in BOOLEAN :
         Returns("getPullRequestDetails",
                 GitLabGetPullRequestDetails(probe.arg.prIdentifier, probe.arg.env,
                                             fetched))

\* What lies at a path of the repository at some ref: nothing, a regular file
\* with its text, a directory, a submodule, or a symbolic link (whose blob
\* holds the target path as its text)
Entry(kind, text) == [kind |-> kind, text |-> text]

Entries ==
    {Entry("missing", <<"">>), Entry("dir", <<"">>), Entry("submodule", <<"">>),
     Entry("symlink", <<"target">>)}
      \cup {Entry("file", text) : text \in FileTexts}

\* a text as the platform transmits it, in some coding
Coded(coding, text) == [coding |-> coding, text |-> text]

\* Buffer.from(content, encoding).toString("utf-8"): the text again when the
\* content is decoded in the coding it was written in, and other text otherwise
Decode(content, encoding) ==
    IF content.coding = encoding THEN content.text ELSE <<"?">>

\* the answer of octokit.repos.getContent or RepositoryFiles.show: rejected, or
\* data with a type (GitHub only), a path, the content and its encoding
\* ("": the field is absent)
Answer(rejected, type, path, content, encoding) ==
    [rejected |-> rejected, type |-> type, path |-> path, content |-> content,
     encoding |-> encoding]

Rejected == Answer(TRUE, "", "", Coded("", <<"">>), "")

\* what GitHub answers for an entry: a listing for a directory, typed data
\* for a submodule or a symbolic link, the base64 content for a file
GitHubContent(filePath, entry) ==
    CASE entry.kind = "missing" -> Rejected
      [] entry.kind = "file" ->
           Answer(FALSE, "file", filePath, Coded("base64", entry.text), "base64")
      [] OTHER -> Answer(FALSE, entry.kind, filePath, Coded("", <<"">>), "")

\* what GitLab answers for an entry: 404 unless a blob lies at the path; a
\* symbolic link is a blob.  withEncoding: the answer names its encoding
GitLabFile(filePath, entry, withEncoding) ==
    IF entry.kind \in {"file", "symlink"}
    THEN IF withEncoding
         THEN Answer(FALSE, "", filePath, Coded("base64", entry.text), "base64")
         ELSE Answer(FALSE, "", "", Coded("", entry.text), "")
    ELSE Rejected

\* what getFileContent did: whether it threw, the ref it asked for ("" when
\* it sent no request), and the FileContent it resolved with
FileRead(threw, ref, path, content) ==
    [threw |-> threw, ref |-> ref, path |-> path, content |-> content]

\* ref || prDetails.headRef
FileRef(headRef, ref) == IF ref # "" THEN ref ELSE headRef

\* GitHubService.getFileContent; contentData is what getContent answers
GitHubGetFileContent(headRef, filePath, ref, contentData) ==
    LET fileRef == FileRef(headRef, ref) IN
    IF fileRef = "" THEN FileRead(TRUE, "", "", <<"">>)
    ELSE IF contentData.rejected THEN FileRead(TRUE, fileRef, "", <<"">>)
    ELSE IF contentData.type = "dir" \/ contentData.type # "file"
    THEN FileRead(TRUE, fileRef, "", <<"">>)
    ELSE FileRead(FALSE, fileRef, contentData.path,
                  Decode(contentData.content, contentData.encoding))

\* GitLabService.getFileContent; fileData is what RepositoryFiles.show answers
GitLabGetFileContent(headRef, filePath, ref, fileData) ==
    LET fileRef == FileRef(headRef, ref) IN
    IF fileRef = "" THEN FileRead(TRUE, "", "", <<"">>)
    ELSE IF fileData.rejected THEN FileRead(TRUE, fileRef, "", <<"">>)
    ELSE IF fileData.encoding # "base64"
    THEN IF fileData.encoding = ""
         THEN FileRead(FALSE, fileRef, filePath, fileData.content.text)
         ELSE FileRead(TRUE, fileRef, "", <<"">>)
    ELSE FileRead(FALSE, fileRef,
                  IF fileData.path # "" THEN fileData.path ELSE filePath,
                  Decode(fileData.content, "base64"))

FileProbes ==
    {Probe("getFileContent", a) :
        a \in [platform : {"github", "gitlab"}, headRef : {"", "head"},
               filePath : {"f"}, ref : {"", "sha"}, entry : Entries]}

CallGitHubFile ==
    /\ probe.fn = "getFileContent"
    /\ probe.arg.platform = "github"
    /\ \E reached \in BOOLEAN :
         Returns("getFileContent",
                 GitHubGetFileContent(probe.arg.headRef, probe.arg.filePath,
                                      probe.arg.ref,
                                      IF reached
                                      THEN GitHubContent(probe.arg.filePath,
                                                         probe.arg.entry)
                                      ELSE Rejected))

CallGitLabFile ==
    /\ probe.fn = "getFileContent"
    /\ probe.arg.platform = "gitlab"
    /\ \E reached \in BOOLEAN, withEncoding \in BOOLEAN :
         Returns("getFileContent",
                 GitLabGetFileContent(probe.arg.headRef, probe.arg.filePath,
                                      probe.arg.ref,
                                      IF reached
                                      THEN GitLabFile(probe.arg.filePath,
                                                      probe.arg.entry, withEncoding)
                                      ELSE Rejected))

\* listings of up to MaxComments entries; a note's id is its place in the listing
ListingProbes ==
    {Probe("getPullRequestComments", [platform |-> "github", listing |-> l]) :
        l \in UNION {[1..n -> ReviewComments] : n \in 0..MaxComments}}
      \cup
    {Probe("getPullRequestComments",
           [platform |-> "gitlab",
            listing |-> [k \in DOMAIN l |-> [l[k] EXCEPT !.id = k]]]) :
        l \in UNION {[1..n -> Notes] : n \in 0..MaxComments}}

CallGitHubComments ==
    /\ probe.fn = "getPullRequestComments"
    /\ probe.arg.platform = "github"
    /\ Returns("getPullRequestComments",
               GitHubGetPullRequestComments(probe.arg.listing))

CallGitLabComments ==
    /\ probe.fn = "getPullRequestComments"
    /\ probe.arg.platform = "gitlab"
    /\ Returns("getPullRequestComments",
               GitLabGetPullRequestComments(probe.arg.listing))

InitAdapters == NotStarted /\ probe \in (DetailsProbes \cup ListingProbes \cup FileProbes)

NextAdapters ==
    \/ CallGitHubDetails
    \/ CallGitLabDetails
    \/ CallGitHubComments
    \/ CallGitLabComments
    \/ CallGitHubFile
    \/ CallGitLabFile

\* the read operations of GitHubService and GitLabService on any platform answer
SpecAdapters == InitAdapters /\ [][NextAdapters]_vars

----------------------------------------------------------------------------
(* main on its own, from a given environment to the resolved request *)

\* a || b on two environment variables, "unset" standing for undefined or ""
OrElse(a, b) == IF a # "unset" THEN a ELSE b

\* the environment main reads: PULL_REQUEST_URL and PULL_REQUEST_NUMBER by what
\* they hold, whether GITHUB_OWNER and GITHUB_REPO are set, and whether the
\* variables the two service constructors need are all set
Environments ==
    [url : IdentifierEnvs, number : IdentifierEnvs, owner : BOOLEAN, repo : BOOLEAN,
     servicesOk : BOOLEAN]

MainProbes == {Probe("main", env) : env \in Environments}

\* main runs to its first await; out keeps the prIdentifier it left the
\* screening with ("exit" when it left by process.exit)
CallMain ==
    /\ probe.fn = "main"
    /\ ~probe.done
    /\ pc = "start"
    /\ LET env == probe.arg
           identEnv == OrElse(env.url, env.number)
           ownerRepo == env.owner /\ env.repo
       IN /\ MainStartWith(identEnv, ownerRepo, env.servicesOk)
          /\ probe' = [probe EXCEPT !.out = ScreenIdentifier(identEnv, ownerRepo),
                                    !.done = TRUE]
    /\ UNCHANGED <<prDetails, comments, idx, cpc, outcome, steps>>

InitMain == NotStarted /\ probe \in MainProbes

NextMain ==
    \/ CallMain
    \/ DetailsReturn

SpecMain == InitMain /\ [][NextMain]_vars

----------------------------------------------------------------------------
(* Properties *)

\* comment i's steps hold an entry of operation op that ended (or began) as ev
Has(i, op, ev) ==
    \E k \in DOMAIN steps[i] : steps[i][k].op = op /\ steps[i][k].ev = ev

\* how often operation op was called for comment i
Calls(i, op) ==
    Cardinality({k \in DOMAIN steps[i] : steps[i][k].op = op /\ steps[i][k].ev = "call"})

\* the entries of comment i's steps for a generateSuggestion that resolved
Generated(i) ==
    {steps[i][k] : k \in {n \in DOMAIN steps[i] :
                            steps[i][n].op = "generateSuggestion" /\ steps[i][n].ev = "ok"}}

LacksPathOrLine(comment) == comment.filePath = "" \/ comment.endLineNumber = 0

PipelineOps == {"getFileContent", "generateSuggestion", "postSuggestionComment"}

BatchFailures == {"identifier", "resolve", "details", "comments"}

\* C1: per-comment isolation. No exception leaves a comment's processComment for
\* main, whatever step of it fails; the run never ends on a comment's account;
\* while the batch is being worked on the run can always go on; and a run that
\* finishes has handed every comment with a path and a line to the pipeline and
\* brought it to an outcome.
C1_Isolation ==
    /\ \A i \in Comment : cpc[i] # "threw"
    /\ cause # "comment"
    /\ pc \in {"loop", "await"} => exitCode = -1 /\ ENABLED Next
    /\ pc = "done" =>
         \A i \in Comment :
             /\ outcome[i] \in {"Skipped", "Failed", "Posted"}
             /\ ~LacksPathOrLine(comments[i]) =>
                    Has(i, "getFileContent", "call") /\ cpc[i] = "returned"

\* C1 witness: a finished run in which the first comment failed at its post and
\* the second one was still processed and posted
C1_Witness ==
    /\ pc = "done" /\ Len(comments) = 2
    /\ Has(1, "postSuggestionComment", "throw") /\ outcome[1] = "Failed"
    /\ outcome[2] = "Posted"

\* C2: the validation gate is total. Every postSuggestionComment call carries a
\* markdown that opens a fenced block tagged "suggestion" (a complete block,
\* closing fence included, when the result came from AzureOpenAiLlmService),
\* and a comment whose generator result lacks such a block is Failed without a
\* post.
C2_ValidationGate ==
    /\ \A call \in calls :
           call.op = "postSuggestionComment" =>
               /\ OpensSuggestionBlock(call.suggestion)
               /\ (\E g \in Generated(call.c) : g.input # "") =>
                      ContainsSuggestionBlock(call.suggestion)
    /\ \A i \in Comment : \A g \in Generated(i) :
           ~g.fence => /\ outcome[i] = "Failed"
                       /\ cpc[i] = "returned"
                       /\ Calls(i, "postSuggestionComment") = 0

\* C2 witness: a generator result without error and without the fenced block
\* was stopped at the gate
C2_Witness ==
    \E i \in Comment : \E g \in Generated(i) :
        ~g.fence /\ ~g.error /\ outcome[i] = "Failed"

\* C3: a generator result with a populated error indicator makes the comment
\* Failed and is never posted, also when its markdown is the placeholder, which
\* has a fenced suggestion block of its own.
C3_ErrorNeverPosted ==
    \A i \in Comment : \A g \in Generated(i) :
        g.error => /\ outcome[i] = "Failed"
                   /\ cpc[i] = "returned"
                   /\ Calls(i, "postSuggestionComment") = 0
                   /\ InFlight("postSuggestionComment", i) = {}

\* C3 witness: the model answered without a block, the generator returned the
\* placeholder (fenced) with an error, and the comment is Failed
C3_Witness ==
    \E i \in Comment : \E g \in Generated(i) :
        /\ g.input = "no block" /\ g.error /\ g.fence /\ g.placeholder
        /\ outcome[i] = "Failed"

\* C4: the eligibility filter is total. For a comment without a file path or
\* without an end line no adapter call is ever made, and once main has passed
\* it, it is Skipped.
C4_Eligibility ==
    \A i \in Comment :
        LacksPathOrLine(comments[i]) =>
            /\ steps[i] = <<>>
            /\ {call \in calls : call.c = i} = {}
            /\ outcome[i] \in {"Pending", "Skipped"}
            /\ (idx > i \/ pc = "done") => outcome[i] = "Skipped"

\* C4 witness: a finished run with a comment that has a line but no path and a
\* comment that has a path but no line, both Skipped
C4_Witness ==
    /\ pc = "done"
    /\ \E i \in Comment, j \in Comment :
        /\ comments[i].filePath = "" /\ comments[i].endLineNumber # 0
        /\ comments[j].filePath # "" /\ comments[j].endLineNumber = 0
        /\ outcome[i] = "Skipped" /\ outcome[j] = "Skipped"

\* C5: a failed getFileContent leaves the comment Skipped with no generate and
\* no post call, no exception reaches main, and the comments after it are still
\* handed to the pipeline.
C5_ReadFailure ==
    \A i \in Comment :
        Has(i, "getFileContent", "throw") =>
            /\ outcome[i] = "Skipped"
            /\ cpc[i] = "returned"
            /\ Calls(i, "generateSuggestion") = 0
            /\ Calls(i, "postSuggestionComment") = 0
            /\ exitCode # 1
            /\ \A j \in Comment :
                   (j > i /\ ~LacksPathOrLine(comments[j]) /\ (idx > j \/ pc = "done"))
                       => Calls(j, "getFileContent") = 1

\* C5 witness: the two-comment batch: the first comment's readFile threw, the
\* second was posted, and the run ended normally
C5_Witness ==
    /\ pc = "done" /\ exitCode = 0 /\ Len(comments) = 2
    /\ Has(1, "getFileContent", "throw") /\ outcome[1] = "Skipped"
    /\ outcome[2] = "Posted"

\* C6: generateSuggestion never raises. A response without a fenced suggestion
\* block gives the placeholder with an error, a failed model call gives a result
\* with an error, and in both cases processComment has returned.
C6_GenerateNeverRaises ==
    \A i \in Comment :
        /\ ~Has(i, "generateSuggestion", "throw")
        /\ \A g \in Generated(i) :
               /\ g.input = "no block" => g.error /\ g.placeholder /\ g.fence
               /\ g.input = "rejected" => g.error
               /\ g.input \in {"no block", "rejected"} => cpc[i] = "returned"

\* C6 witness: a batch in which the model call failed for the first comment and
\* the second comment was then processed
C6_Witness ==
    /\ Len(comments) = 2
    /\ \E g \in Generated(1) : g.input = "rejected" /\ g.error
    /\ \E g \in Generated(2) : g.input = "no block" /\ g.error

\* C7: a failure that prevents establishing the batch ends the run with exit
\* code 1, and no comment was fetched or worked on: a run that is past its
\* start without details and without a call in flight has exited with 1, and
\* an exit with 1 happens only before there are comments.
C7_FatalFailures ==
    /\ cause \in BatchFailures =>
           /\ pc = "exit" /\ exitCode = 1
           /\ calls = {}
           /\ comments = <<>> /\ steps = <<>>
    /\ (pc # "start" /\ calls = {} /\ prDetails = NoDetails) => exitCode = 1
    /\ exitCode = 1 => comments = <<>>

\* C7 witness: the comment listing failed after the details were fetched
C7_Witness == cause = "comments" /\ exitCode = 1 /\ prDetails # NoDetails

\* C8: when the listing resolves with zero comments the run is over, with exit
\* code 0 and nothing in flight.
C8_ZeroComments ==
    (prDetails # NoDetails /\ pc # "comments" /\ cause # "comments" /\ comments = <<>>)
        => pc = "done" /\ exitCode = 0 /\ calls = {}

\* C8 witness: main returned early on the empty listing
C8_Witness == pc = "done" /\ cause = "no comments" /\ comments = <<>>

\* C9: no retry. Each comment sees at most one call of each pipeline operation,
\* and a Failed comment is finished: nothing is in flight for it.
C9_NoRetry ==
    \A i \in Comment :
        /\ \A op \in PipelineOps : Calls(i, op) <= 1
        /\ outcome[i] = "Failed" =>
               cpc[i] = "returned" /\ {call \in calls : call.c = i} = {}

\* C9 witness: a finished run with one comment Failed at generation and one
\* Failed at its post
C9_Witness ==
    /\ pc = "done"
    /\ \E i \in Comment, j \in Comment :
        /\ outcome[i] = "Failed" /\ Calls(i, "postSuggestionComment") = 0
        /\ outcome[j] = "Failed" /\ Has(j, "postSuggestionComment", "throw")

\* C10: strictly sequential. At most one adapter call is in flight; it belongs
\* to main or to the comment the loop is at; the comments before that one are
\* finished and the comments after it untouched.
C10_Sequential ==
    /\ Cardinality(calls) <= 1
    /\ \A call \in calls : call.c \in {0, idx}
    /\ \A i \in Comment :
        /\ i < idx => cpc[i] \in {"idle", "returned"} /\ outcome[i] # "Pending"
        /\ i > idx => cpc[i] = "idle" /\ steps[i] = <<>> /\ outcome[i] = "Pending"

\* C10 witness: the second comment's post is in flight after the first comment
\* went through all three calls
C10_Witness ==
    /\ idx = 2 /\ InFlight("postSuggestionComment", 2) # {}
    /\ Calls(1, "postSuggestionComment") = 1

\* the lesser of two numbers
Lesser(a, b) == IF a < b THEN a ELSE b

\* the greater of two numbers
Greater(a, b) == IF a > b THEN a ELSE b

\* getCodeContext has returned for a line number within the file text
ContextOfValidLine ==
    /\ probe.fn = "getCodeContext"
    /\ probe.done
    /\ probe.arg.lineNumber \in 1..Len(probe.arg.fileContent)

\* C14: for a file text of lineCount lines, a targetLine in 1..lineCount and a
\* windowSize >= 0, getCodeContext returns exactly
\* min(windowSize, targetLine-1) + min(windowSize, lineCount-targetLine) + 1 lines.
C14_WindowLineCount ==
    (ContextOfValidLine /\ probe.arg.maxLines >= 0) =>
        LET lineCount == Len(probe.arg.fileContent)
            targetLine == probe.arg.lineNumber
            windowSize == probe.arg.maxLines
        IN Len(probe.out) = Lesser(windowSize, targetLine - 1)
                              + Lesser(windowSize, lineCount - targetLine) + 1

\* a window cut short by the start of the file but not by its end
C14_Witness ==
    /\ ContextOfValidLine
    /\ probe.arg.maxLines = 2
    /\ probe.arg.lineNumber = 2
    /\ Len(probe.arg.fileContent) = 5
    /\ Len(probe.out) = 4

\* C15: getCodeContext returns the empty string whenever targetLine <= 0, the
\* file text is empty or targetLine > lineCount, whatever the windowSize.
C15_EmptyOnOutOfRange ==
    (/\ probe.fn = "getCodeContext"
     /\ probe.done
     /\ \/ probe.arg.lineNumber <= 0
        \/ IsEmptyText(probe.arg.fileContent)
        \/ probe.arg.lineNumber > Len(probe.arg.fileContent))
        => probe.out = <<"">>

\* the line after the last one of a file of several lines, asked for with a
\* window that would reach back into the file
C15_Witness ==
    /\ probe.fn = "getCodeContext"
    /\ probe.done
    /\ probe.arg.fileContent = <<"a", "b", "c">>
    /\ probe.arg.lineNumber = 4
    /\ probe.arg.maxLines = 2
    /\ probe.out = <<"">>

\* C16: for a valid targetLine and windowSize >= 0, getCodeContext returns the
\* file's lines with 0-based indices max(0, target-windowSize) ..
\* min(lineCount-1, target+windowSize), target = targetLine-1, in their order
\* and unchanged; "a\nb\nc\nd\ne" with targetLine 3 and windowSize 1 gives "b\nc\nd".
C16_WindowContent ==
    /\ (ContextOfValidLine /\ probe.arg.maxLines >= 0) =>
          LET text == probe.arg.fileContent
              target == probe.arg.lineNumber - 1
              first == Greater(0, target - probe.arg.maxLines)
              last == Lesser(Len(text) - 1, target + probe.arg.maxLines)
          IN /\ 0 <= first /\ first <= last /\ last <= Len(text) - 1
             /\ probe.out = [k \in 1..(last - first + 1) |-> text[first + k]]
    /\ (/\ ContextOfValidLine
        /\ probe.arg.fileContent = <<"a", "b", "c", "d", "e">>
        /\ probe.arg.lineNumber = 3
        /\ probe.arg.maxLines = 1) => probe.out = <<"b", "c", "d">>

\* scenario A has run
C16_Witness ==
    /\ ContextOfValidLine
    /\ probe.arg.fileContent = <<"a", "b", "c", "d", "e">>
    /\ probe.arg.lineNumber = 3
    /\ probe.arg.maxLines = 1
    /\ probe.out = <<"b", "c", "d">>

\* C17: getOriginalCode returns the lines startLine..endLine unchanged when
\* 1 <= startLine <= endLine <= lineCount (one line when they are equal), and
\* the empty string when a line number is <= 0 or > lineCount or the file text
\* is empty.
C17_ExactSlice ==
    (probe.fn = "getOriginalCode" /\ probe.done) =>
        LET text == probe.arg.fileContent
            startLine == probe.arg.startLine
            endLine == probe.arg.endLine
        IN /\ (1 <= startLine /\ startLine <= endLine /\ endLine <= Len(text)) =>
                 probe.out = [k \in 1..(endLine - startLine + 1) |->
                                 text[startLine - 1 + k]]
           /\ (1 <= startLine /\ startLine = endLine /\ endLine <= Len(text)) =>
                 probe.out = <<text[startLine]>>
           /\ (\/ startLine <= 0 \/ endLine <= 0
               \/ startLine > Len(text) \/ endLine > Len(text)
               \/ IsEmptyText(text)) => probe.out = <<"">>

Within(s, t) ==
    \E k \in 0..(Len(t) - Len(s)) : SubSeq(t, k + 1, k + Len(s)) = s

\* the fenced block of a response that holds exactly one (<<>> otherwise)
TheBlock(text) ==
    LET i == {o \in 1..(Len(text) - 1) : text[o] = FENCE /\ text[o + 1] = TAG} IN
    IF Cardinality(i) # 1 \/ OpeningFences(text) # i THEN <<>>
    ELSE LET o == CHOOSE x \in i : TRUE
             closings == ClosingFences(text, o)
         IN IF Cardinality(closings) # 1 THEN <<>>
            ELSE SubSeq(text, o, (CHOOSE c \in closings : TRUE) + 1)

\* the "Rationale: " line of a response that holds exactly one (<<>> otherwise)
TheRationaleLine(text) ==
    LET at == {k \in 1..Len(text) : text[k] = RAT} IN
    IF Cardinality(at) # 1 THEN <<>>
    ELSE LET r == CHOOSE k \in at : TRUE
             ends == {k \in r..Len(text) : k = Len(text) \/ text[k + 1] = NL}
         IN IF (r > 1 /\ text[r - 1] # NL) \/ Len(text) = r THEN <<>>
            ELSE SubSeq(text, r, Min(ends))

\* a response with exactly one fenced suggestion block and one rationale line
WellFormed(text) == TheBlock(text) # <<>> /\ TheRationaleLine(text) # <<>>

\* postSuggestionComment has sent its request for a well-formed response
PostedWellFormed ==
    /\ probe.fn = "postSuggestionComment"
    /\ probe.done
    /\ probe.out.sent
    /\ probe.arg.invoked.kind = "text"
    /\ WellFormed(probe.arg.invoked.text)

\* C11: for a well-formed response (exactly one fenced suggestion block, one
\* "Rationale: " line) the reply body the adapter sends (GitHub
\* createReplyForReviewComment, GitLab MergeRequestDiscussions.create) contains
\* the fenced block and the rationale line, both unchanged.
C11_RoundTrip ==
    PostedWellFormed =>
        /\ Within(TheBlock(probe.arg.invoked.text), probe.out.body)
        /\ Within(TheRationaleLine(probe.arg.invoked.text), probe.out.body)

\* C12: when the comment replied to has no position, postSuggestionComment
\* still sends a request, for a general comment whose body names the comment's
\* id; when it has one, the reply is tied to it (GitHub: to the review comment).
C12_Fallback ==
    (probe.fn = "postSuggestionComment" /\ probe.done /\ probe.arg.thread.found
        /\ probe.arg.thread.notes # <<>>) =>
        LET original == probe.arg.thread.notes[1] IN
        /\ probe.out.sent
        /\ original.position = 0 =>
              /\ probe.out.position = 0
              /\ Within(<<ToString(probe.arg.replyToCommentId)>>, probe.out.body)
        /\ original.position # 0 =>
              \/ probe.out.position = original.position
              \/ probe.out.comment_id = probe.arg.replyToCommentId

\* getPullRequestComments has returned on the named platform
Listed(platform) ==
    /\ probe.fn = "getPullRequestComments"
    /\ probe.done
    /\ probe.arg.platform = platform

Resolved(platform) ==
    /\ probe.fn = "getPullRequestDetails"
    /\ probe.done
    /\ probe.arg.platform = platform

\* the repository and number an identifier names, read off the identifier by
\* its three accepted shapes; ok FALSE: it names none
Names(ok, repo, number) == [ok |-> ok, repo |-> repo, number |-> number]

NamedOnGitHub(id, env) ==
    CASE id.shape = "object" -> Names(id.owner # "" /\ id.repo # <<>> /\ id.number > 0,
                                      id.repo, id.number)
      [] id.shape = "number" -> Names(env.owner # "" /\ env.repo # <<>> /\ id.number > 0,
                                      env.repo, id.number)
      [] id.shape = "url" -> IF Len(id.parts) >= 4 /\ id.parts[3] = "pull"
                                  /\ id.parts[4] = "42"
                             THEN Names(TRUE, <<id.parts[2]>>, 42)
                             ELSE Names(FALSE, <<>>, 0)
      [] OTHER -> Names(FALSE, <<>>, 0)

NamedOnGitLab(id, env) ==
    CASE id.shape = "object" -> Names(id.repo # <<>> /\ id.number > 0, id.repo, id.number)
      [] id.shape = "number" -> Names(env.projectPath # <<>> /\ id.number > 0,
                                      env.projectPath, id.number)
      [] id.shape = "url" ->
           IF id.parts = <<"g", "r", "-", "merge_requests", "42">>
           THEN Names(TRUE, <<"g", "r">>, 42)
           ELSE IF id.parts = <<"g", "s", "r", "-", "merge_requests", "42">>
           THEN Names(TRUE, <<"g", "s", "r">>, 42)
           ELSE Names(FALSE, <<>>, 0)
      [] OTHER -> Names(FALSE, <<>>, 0)

\* a returned call agrees with what the identifier names
ResolvesAsNamed(named) ==
    /\ named.ok =>
          /\ probe.out.requested
          /\ ~probe.out.threw =>
                /\ probe.out.details.repo = named.repo
                /\ probe.out.details.pullNumber = named.number
                /\ probe.out.details.headRef # ""
                /\ probe.out.details.baseRef # ""
    /\ ~named.ok => probe.out.threw /\ ~probe.out.requested

C20_ReadsRegularFiles ==
    (probe.fn = "getFileContent" /\ probe.done) =>
        /\ probe.out.ref # "" =>
              probe.out.ref = (IF probe.arg.ref # "" THEN probe.arg.ref
                               ELSE probe.arg.headRef)
        /\ probe.arg.entry.kind # "file" => probe.out.threw
        /\ ~probe.out.threw =>
              /\ probe.out.path = probe.arg.filePath
              /\ probe.out.content = probe.arg.entry.text

Terminal == {"Skipped", "Posted", "Failed"}

\* comment i's steps as pairs of operation and event
Trace(i) == [k \in DOMAIN steps[i] |-> <<steps[i][k].op, steps[i][k].ev>>]

\* the only steps that end in Posted
PostedTrace ==
    << <<"getFileContent", "call">>, <<"getFileContent", "ok">>,
       <<"generateSuggestion", "call">>, <<"generateSuggestion", "ok">>,
       <<"postSuggestionComment", "call">>, <<"postSuggestionComment", "ok">> >>

\* in comment i's steps an entry of operation op that ended as ev lies before
\* entry k
Before(i, k, op, ev) ==
    \E j \in 1..(k - 1) : steps[i][j].op = op /\ steps[i][j].ev = ev

StepOrder ==
    \A i \in Comment :
        /\ outcome[i] \in Terminal \cup {"Pending"}
        /\ cpc[i] = "returned" => outcome[i] \in Terminal
        /\ outcome[i] \in Terminal =>
               cpc[i] \in {"idle", "returned"} /\ \A call \in calls : call.c # i
        /\ outcome[i] = "Posted" =>
               /\ Trace(i) = PostedTrace
               /\ \A e \in Generated(i) : ~e.error /\ e.fence
        /\ \A call \in InFlight("generateSuggestion", i) : ~IsEmptyText(call.codeContext)
        /\ \A k \in DOMAIN steps[i] :
               /\ steps[i][k].op = "postSuggestionComment" =>
                      Before(i, k, "generateSuggestion", "ok")
               /\ steps[i][k].op = "generateSuggestion" =>
                      Before(i, k, "getFileContent", "ok")

\* C21: the per-comment state machine. Every listed comment ends in one of
\* Skipped, Posted, Failed once every adapter call settles, and an outcome once
\* reached never changes; Posted is reached only by the steps getFileContent
\* resolved, context non-empty, generateSuggestion resolved with a usable
\* result, postSuggestionComment resolved, in that order; no post entry of a
\* comment comes before its resolved generateSuggestion, and no generate entry
\* before its resolved getFileContent.
C21_StateMachine ==
    /\ []StepOrder
    /\ [][\A i \in Comment : outcome[i] \in Terminal => outcome'[i] = outcome[i]]_vars
    /\ <>[](\A i \in Comment : outcome[i] \in Terminal)

\* C21 witness: two comments both handed to processComment, the first Posted
\* by the full step order, the second stopped at the validation and Failed
C21_Witness ==
    /\ Len(comments) = 2
    /\ outcome[1] = "Posted" /\ Trace(1) = PostedTrace
    /\ outcome[2] = "Failed" /\ Len(steps[2]) = 4

\* C22: file snapshots are fetched per comment and never shared. Every comment
\* handed to processComment has exactly one getFileContent call, for its own
\* path at the head ref, also when an earlier comment named the same path; a
\* comment main skips has none; the context and the original code of a
\* generateSuggestion request come from one file text, cut with that comment's
\* own lines; and a file's text is held nowhere but in the request of the
\* comment being awaited, so none is left when the next comment begins.
C22_SnapshotPerComment ==
    /\ \A i \in Comment :
           /\ Calls(i, "getFileContent") =
                  IF Eligible(comments[i]) /\ cpc[i] # "idle" THEN 1 ELSE 0
           /\ \A call \in InFlight("getFileContent", i) :
                  call.path = comments[i].filePath /\ call.ref = prDetails.headRef
           /\ \A call \in InFlight("generateSuggestion", i) :
                  \E content \in FileTexts :
                      /\ call.codeContext =
                             getCodeContext(content, comments[i].endLineNumber,
                                            MAX_CONTEXT_LINES)
                      /\ call.originalCode =
                             getOriginalCode(OriginalCodeStart(comments[i]),
                                             comments[i].endLineNumber, content)
    /\ \A call \in calls :
           call.codeContext # <<>> \/ call.originalCode # <<>> =>
               /\ call.op = "generateSuggestion"
               /\ pc = "await" /\ call.c = idx /\ calls = {call}
    /\ pc = "loop" => calls = {}

\* C22 witness: two comments on the same path and the same line; the first was
\* Skipped on the file fetched for it, the second has a context from the file
\* fetched for it, and each has one getFileContent call
C22_Witness ==
    /\ Len(comments) = 2
    /\ comments[1].filePath = comments[2].filePath
    /\ comments[1].endLineNumber = 1 /\ comments[2].endLineNumber = 1
    /\ Has(1, "getFileContent", "ok") /\ outcome[1] = "Skipped"
    /\ InFlight("generateSuggestion", 2) # {}
    /\ Calls(1, "getFileContent") = 1 /\ Calls(2, "getFileContent") = 1

\* C23: with the window of MAX_CONTEXT_LINES lines, a comment whose fetched
\* file is not empty and has the comment's end line is never Skipped for want
\* of context: the context is non-empty also when the commented line is empty,
\* and the generateSuggestion request is issued.
C23_ContextOfListedLine ==
    \A i \in Comment :
        \A k \in DOMAIN steps[i] :
            /\ steps[i][k].op = "getFileContent"
            /\ steps[i][k].ev = "ok"
            /\ steps[i][k].input = "line"
            => /\ outcome[i] # "Skipped"
               /\ Calls(i, "generateSuggestion") = 1
               /\ \A call \in InFlight("generateSuggestion", i) :
                      ~IsEmptyText(call.codeContext)

\* C23 witness: a single-line comment on an empty line of the fetched file (its
\* original code is the empty string), with the generateSuggestion request in
\* flight and a non-empty context
C23_Witness ==
    \E i \in Comment :
        /\ comments[i].startLineNumber = 0
        /\ \E k \in DOMAIN steps[i] :
               steps[i][k].op = "getFileContent" /\ steps[i][k].input = "line"
        /\ \E call \in InFlight("generateSuggestion", i) :
               IsEmptyText(call.originalCode) /\ ~IsEmptyText(call.codeContext)

\* the request was resolved and the comments were listed, and main is at work
\* on them
Working == pc \in {"loop", "await"}

\* C24: per-comment outcomes never change the run's exit status. Once the
\* request is resolved and the comments are listed, no step ends the run with
\* a non-zero status, whatever the comments' outcomes; a run that ended with a
\* non-zero status had not listed any comment; and with every adapter call
\* settling the run ends, with status 0 unless it ended before the comments
\* were listed.
C24_ExitStatus ==
    /\ [][Working => pc' \in {"loop", "await", "done"} /\ exitCode' \in {0 - 1, 0}]_vars
    /\ [](pc = "done" => exitCode = 0 /\ \A i \in Comment : cpc[i] # "threw")
    /\ [](exitCode = 1 => outcome = <<>>)
    /\ <>[](pc = "exit" \/ (pc = "done" /\ exitCode = 0))

\* C24 witness: main completed with status 0 although both comments Failed,
\* one at the validation and one at the post
C24_Witness ==
    /\ pc = "done" /\ exitCode = 0 /\ Len(comments) = 2
    /\ outcome[1] = "Failed" /\ Calls(1, "postSuggestionComment") = 0
    /\ outcome[2] = "Failed" /\ Has(2, "postSuggestionComment", "throw")

\* the identifier main works with: PULL_REQUEST_URL, or else PULL_REQUEST_NUMBER
RawIdentifier == OrElse(probe.arg.url, probe.arg.number)

\* neither variable is set, or the identifier is not numeric and does not
\* contain "github.com"
ScreenedOut == RawIdentifier \in {"unset", "other"}

\* the run ended at the screening: non-zero status, nothing constructed, no call
ExitsAtScreening ==
    /\ pc = "exit" /\ exitCode = 1 /\ cause = "identifier"
    /\ calls = {} /\ prDetails = NoDetails
    /\ probe.out = "exit"

\* the identifier left the screening as a number, a URL string or a record
HandedOnAs ==
    probe.out = CASE RawIdentifier = "number" ->
                         IF probe.arg.owner /\ probe.arg.repo THEN "object" ELSE "number"
                  [] OTHER -> "url"

\* getPullRequestDetails was called once with that identifier: its request is
\* in flight, or it rejected before its request, or its request has settled
ResolveCalledOnce ==
    \/ /\ pc = "details"
       /\ calls = {[Call("getPullRequestDetails", 0) EXCEPT !.ident = probe.out]}
    \/ /\ pc = "exit" /\ cause = "resolve" /\ calls = {}
    \/ /\ pc = "comments" \/ (pc = "exit" /\ cause = "details")
       /\ InFlight("getPullRequestDetails", 0) = {}

====
